---- MODULE Spec2Model ----
(***************************************************************************)
(* State-machine model of the HackRx retrieval-augmented QA service:       *)
(*   main.py                       run_hackrx (routing, ledger gate,       *)
(*                                 concurrent per-question units)          *)
(*   app/services/ingestion.py     probe, download, dispatch, chunker      *)
(*   app/services/embeddings.py    upsert_chunks (batcher)                 *)
(*   app/services/retrieval.py     search_chunks                           *)
(*   app/services/interactive.py   trivia side channels                    *)
(*                                                                         *)
(* The service runs on one asyncio event loop: code between two awaits is  *)
(* atomic, so every action below is one such stretch of code, from the     *)
(* resumption of a coroutine to its next suspension.                       *)
(***************************************************************************)
EXTENDS Integers, Sequences, FiniteSets, TLC

\* ------------------------------------------------------------------------
\* Bounds of the model
\* ------------------------------------------------------------------------
\* longest question list offered in the answering workload
MaxQuestions == 2
\* longest token sequence offered to the chunker workload
MaxTokens == 5500
\* most chunk records offered to the batcher workload
MaxRecords == 200
\* requests accepted in one run of the concurrent workload
MaxServed == 3
\* requests that may overlap in time in the concurrent workload
NSlots == 2
\* requests accepted in one run of the sequential workload
MaxSeqServed == 2

\* ------------------------------------------------------------------------
\* Program constants
\* ------------------------------------------------------------------------
CHUNK_TOKEN_SIZE == 2000
OVERLAP == (1 * CHUNK_TOKEN_SIZE) \div 10
MAX_BATCH == 96
TOP_K == 10
IMAGE_EXTS == {"png", "jpeg", "jpg", "bmp", "gif"}
ARCHIVE_EXTS == {"zip"}
EXCEL_EXTS == {"xlsx"}
PPTX_EXTS == {"pptx"}
TEXT_EXTS == {"pdf", "docx", "txt", "eml"}

None == "None"

Min(a, b) == IF a < b THEN a ELSE b

\* ------------------------------------------------------------------------
\* Strings.  A file name is the sequence of its dot-separated components
\* (<<"report", "PDF">> is report.PDF); a question is the sequence of its
\* words; a completion is a sequence of characters.
\* ------------------------------------------------------------------------
\* str.lower() on the words and components the model uses
Lower(s) ==
    CASE s = "PDF" -> "pdf"
      [] s = "DOCX" -> "docx"
      [] s = "Secret" -> "secret"
      [] s = "Token" -> "token"
      [] s = "TopSecret" -> "topsecret"
      [] s = "FLIGHT" -> "flight"
      [] s = "Get" -> "get"
      [] OTHER -> s

\* os.path.splitext(name)[1].lower(): the last component when the name has a
\* dot, the empty suffix otherwise (the dot itself is left implicit)
SplitExtLower(name) ==
    IF Len(name) >= 2 THEN Lower(name[Len(name)]) ELSE ""

\* os.path.splitext(name)[0]: every component but the suffix
SplitBase(name) ==
    IF Len(name) >= 2 THEN SubSeq(name, 1, Len(name) - 1) ELSE name

\* A locator is the file name its URL path ends in.
Locators ==
    { <<"report", "PDF">>, <<"letter", "docx">>, <<"notes", "txt">>,
      <<"mail", "eml">>, <<"data", "bin">>, <<"bundle", "zip">>,
      <<"scan", "png">>, <<"photo", "jpeg">>, <<"pic", "jpg">>,
      <<"img", "bmp">>, <<"anim", "gif">>, <<"sheet", "xlsx">>,
      <<"deck", "pptx">>, <<"download">>, <<"README">>, <<"movie", "mp4">>,
      <<"archive", "tar", "gz">> }

\* The Content-Disposition filename the server of a locator sends (<<>>: the
\* header is absent).
ContentDisposition(url) ==
    IF url = <<"download">> THEN <<"policy", "DOCX">> ELSE <<>>

\* get_url_extension, once the probe has answered
get_url_extension(url) ==
    LET cd == ContentDisposition(url)
    IN  IF cd # <<>> THEN SplitExtLower(cd) ELSE SplitExtLower(url)

\* basename = unquote(splitext(basename(urlparse(doc_url).path))[0])
Basename(url) == SplitBase(url)

\* ------------------------------------------------------------------------
\* Format dispatch (extract_and_embed_chunks)
\* ------------------------------------------------------------------------
\* (mutant) the final else branch missing: whatever is left is read as text
HandlerClassNoText(ext) ==
    CASE ext = "bin" -> "bin"
      [] ext \in ARCHIVE_EXTS -> "zip"
      [] ext \in IMAGE_EXTS -> "image"
      [] ext \in EXCEL_EXTS -> "xlsx"
      [] ext \in PPTX_EXTS -> "pptx"
      [] OTHER -> "text"

\* the handler class the if/elif chain selects for a resolved suffix
HandlerClass(ext) ==
    CASE ext = "bin" -> "bin"
      [] ext \in ARCHIVE_EXTS -> "zip"
      [] ext \in IMAGE_EXTS -> "image"
      [] ext \in EXCEL_EXTS -> "xlsx"
      [] ext \in PPTX_EXTS -> "pptx"
      [] ext \in TEXT_EXTS -> "text"
      [] OTHER -> "unsupported"

\* extract_text_file: the text of a .pdf/.docx/.txt/.eml body, "" otherwise.
\* A text is represented by the number of tokens its whitespace-normalised
\* form encodes to.
extract_text_file(ext, ntokens) ==
    IF ext \in {"pdf", "docx", "txt", "eml"} THEN ntokens ELSE 0

\* ------------------------------------------------------------------------
\* Chunker (_chunk_and_upsert)
\* ------------------------------------------------------------------------
\* str(i): the decimal digits of a natural number
RECURSIVE DecStr(_)
DecStr(i) == IF i < 10 THEN <<i>> ELSE Append(DecStr(i \div 10), i % 10)

ChunkId(basename, i) == <<basename, "::chunk_", DecStr(i)>>
MetadataId(basename) == <<basename, "::metadata">>

\* tokens[a:b] of a token sequence of length n, as Python slices it: the
\* positions a..b-1 clipped to the sequence.  The slice is kept as its two
\* ends; it holds the tokens at positions lo..hi-1.
TokenSlice(n, a, b) == [lo |-> Min(a, n), hi |-> Min(b, n)]

SliceLen(s) == s.hi - s.lo

\* (mutant) the windows advance by their full size: no overlap
StrideNoOverlap == CHUNK_TOKEN_SIZE

\* the step of range(0, len(tokens), CHUNK_TOKEN_SIZE - OVERLAP)
Stride == CHUNK_TOKEN_SIZE - OVERLAP

\* len(range(0, n, step)): the number of i = 0, step, 2*step, ... below n
RangeLen(n, step) == (n + step - 1) \div step

\* the records _chunk_and_upsert hands to upsert_chunks for a text of n
\* tokens: for i in range(0, len(tokens), Stride): records.append(
\*   {"id": f"{basename}::chunk_{i}", "text": enc.decode(tokens[i:i+SIZE])})
ChunkRecords(n, basename) ==
    [k \in 1..RangeLen(n, Stride) |->
        LET i == (k - 1) * Stride
        IN  [id |-> ChunkId(basename, i),
             text |-> TokenSlice(n, i, i + CHUNK_TOKEN_SIZE)]]

\* the single record of handle_bin_stub / handle_zip_stub / the OCR stub
StubRecords(basename, what) ==
    << [id |-> MetadataId(basename), text |-> what] >>

\* ------------------------------------------------------------------------
\* Batcher (upsert_chunks)
\* ------------------------------------------------------------------------
\* records = [{"id": c["id"], "text": c["text"], "doc_url": source_url} ...]
WithDocUrl(chunks, source_url) ==
    [k \in 1..Len(chunks) |->
        [id |-> chunks[k].id, text |-> chunks[k].text, doc_url |-> source_url]]

\* (mutant) the end of the slice taken as inclusive: one record short
BatchOneShort(recs, i) == SubSeq(recs, i + 1, Min(i + MAX_BATCH - 1, Len(recs)))

\* batch = records[i:i + MAX_BATCH]   (i is the 0-based loop index)
Batch(recs, i) == SubSeq(recs, i + 1, Min(i + MAX_BATCH, Len(recs)))

\* (mutant) the store keeps every record it is handed
UpsertAppend(st, batch) == st \o batch

\* index.upsert_records: a record whose id is stored already replaces it in
\* place, a new one is added at the end (the ids of one batch differ)
UpsertRecords(st, batch) ==
    LET ids == {batch[j].id : j \in 1..Len(batch)}
        old == {st[k].id : k \in 1..Len(st)}
        new(id) == batch[CHOOSE j \in 1..Len(batch) : batch[j].id = id]
    IN  [k \in 1..Len(st) |-> IF st[k].id \in ids THEN new(st[k].id) ELSE st[k]]
            \o SelectSeq(batch, LAMBDA rec : rec.id \notin old)

\* ------------------------------------------------------------------------
\* Retriever (search_chunks)
\* ------------------------------------------------------------------------
Take(s, k) == SubSeq(s, 1, Min(k, Len(s)))

\* index.search with filter {"doc_url": doc_url}: the matching records in
\* the store's rank order, cut to top_k
SearchHits(st, doc_url, top_k) ==
    Take(SelectSeq(st, LAMBDA rec : rec.doc_url = doc_url), top_k)

\* texts = [fld.get("text") ... if txt]
HitTexts(hits) == [k \in 1..Len(hits) |-> hits[k].text]

\* ------------------------------------------------------------------------
\* Routing predicates (run_hackrx)
\* ------------------------------------------------------------------------
EndsWithWord(w, tail) ==
    \/ w = tail
    \/ tail = "secret" /\ w = "topsecret"

StartsWithWord(w, head) ==
    \/ w = head
    \/ head = "token" /\ w = "tokens"
    \/ head = "number" /\ w = "numbers"

\* (mutant) the question is not lower-cased
ContainsPhraseCaseSensitive(q, first, second) ==
    \E k \in 1..(Len(q) - 1) :
        EndsWithWord(q[k], first) /\ StartsWithWord(q[k + 1], second)

\* "<first> <second>" in q.lower()
ContainsPhrase(q, first, second) ==
    \E k \in 1..(Len(q) - 1) :
        EndsWithWord(Lower(q[k]), first) /\ StartsWithWord(Lower(q[k + 1]), second)

\* req.questions and any("flight number" in q.lower() for q in req.questions)
IsFlight(questions) ==
    Len(questions) > 0 /\
    \E k \in 1..Len(questions) : ContainsPhrase(questions[k], "flight", "number")

\* req.questions and any("secret token" in q.lower() for q in req.questions)
IsSecret(questions) ==
    Len(questions) > 0 /\
    \E k \in 1..Len(questions) : ContainsPhrase(questions[k], "secret", "token")

\* (mutant) the secret-token block missing
RouteNoSecret(questions) ==
    IF IsFlight(questions) THEN "flight" ELSE "general"

\* (mutant) the two if-blocks in the other order
RouteSecretFirst(questions) ==
    IF IsSecret(questions) THEN "secret"
    ELSE IF IsFlight(questions) THEN "flight"
    ELSE "general"

\* the order of the two if-blocks of run_hackrx
Route(questions) ==
    IF IsFlight(questions) THEN "flight"
    ELSE IF IsSecret(questions) THEN "secret"
    ELSE "general"

\* ------------------------------------------------------------------------
\* Ledger gate (run_hackrx)
\* ------------------------------------------------------------------------
InSeq(x, s) == \E k \in 1..Len(s) : s[k] = x

\* (mutant) the gate is open whatever the ledger holds
NeedsIngestAlways(doc_url, processed) == TRUE

\* if doc_url not in processed_docs
NeedsIngest(doc_url, processed) == ~InSeq(doc_url, processed)

\* ------------------------------------------------------------------------
\* Answers
\* ------------------------------------------------------------------------
IsSpace(c) == c \in {" ", "\t"}

\* str.strip()
Strip(s) ==
    LET keep == {k \in 1..Len(s) : ~IsSpace(s[k])}
    IN  IF keep = {} THEN <<>>
        ELSE SubSeq(s, CHOOSE k \in keep : \A j \in keep : k <= j,
                       CHOOSE k \in keep : \A j \in keep : k >= j)


\* the completions the model may return (leading or trailing white space
\* included), and the tokens / flights the side channels may return
Completions == { <<"y", "e", "s">>, <<" ", "n", "o", "\t">> }
SecretTokens == {"abc123"}
Flights == { [flightNumber |-> "f7a2c1", destination |-> "Paris"] }

\* ------------------------------------------------------------------------
\* Workloads: the requests the environment may send
\* ------------------------------------------------------------------------
QCover == <<"what", "is", "covered">>
QDecoy == <<"token", "secret">>
QSecret == <<"Get", "the", "Secret", "Token">>
QTokens == <<"TopSecret", "tokens">>
QFlight == <<"my", "FLIGHT", "number">>

QuestionPool == {QCover, QDecoy, QSecret, QTokens, QFlight}

ListsOver(pool, maxlen) == UNION { [1..k -> pool] : k \in 0..maxlen }

\* one list per route, for the workloads that are not about answering
FewLists == { <<>>, <<QCover>>, <<QCover, QSecret>>, <<QFlight>> }

\* every format, a few text sizes, one request
WlDispatch ==
    [docs |-> Locators, qlists |-> FewLists, lens |-> {0, 1, 2500},
     maxServed |-> 1]

\* requests one after another: a document of a known and one of an unknown
\* format, every question list
WlSeq ==
    [docs |-> {<<"report", "PDF">>, <<"README">>},
     qlists |-> ListsOver(QuestionPool, MaxQuestions),
     lens |-> {2500}, maxServed |-> MaxSeqServed]

\* requests that overlap in time, for two documents; their question lists
\* are empty, so that each is over once its ingestion is
WlConc ==
    [docs |-> {<<"report", "PDF">>, <<"bundle", "zip">>},
     qlists |-> {<<>>}, lens |-> {2500}, maxServed |-> MaxServed]

\* the text lengths that chunk into 0, 1, ..., MaxRecords records
WlBatch ==
    [docs |-> {<<"notes", "txt">>}, qlists |-> FewLists,
     lens |-> {0} \cup {(m - 1) * Stride + 1 : m \in 1..MaxRecords},
     maxServed |-> 1]

\* one document, of a text of 2, of MAX_BATCH + 1 or of 2 * MAX_BATCH + 1
\* chunk records (one, two or three batches), asked for again and again
\* without questions
WlRetry ==
    [docs |-> {<<"notes", "txt">>}, qlists |-> {<<>>},
     lens |-> {2500, MAX_BATCH * Stride + 1, 2 * MAX_BATCH * Stride + 1},
     maxServed |-> MaxSeqServed]

\* every text length up to MaxTokens
WlChunk ==
    [docs |-> {<<"notes", "txt">>}, qlists |-> FewLists,
     lens |-> 0..MaxTokens, maxServed |-> 1]

\* ------------------------------------------------------------------------
\* State
\* ------------------------------------------------------------------------
VARIABLES
    ledgerFile,   \* the file at JSON_FILE_PATH: [exists, docs]
    store,        \* the records of namespace "hackrx", in rank order
    tempFiles,    \* the temporary files present on disk
    served,       \* number of requests accepted so far
    task,         \* per request slot: the locals of run_hackrx and its callees
    obs,          \* per request slot: what the running request has done so far
    hist          \* what finished requests have done: the locators they
                  \* recorded, the locator whose ingestion failed last, and
                  \* the <<locator, token count>> pairs of the ingestions of
                  \* which the store accepted a batch

vars == <<ledgerFile, store, tempFiles, served, task, obs, hist>>

Slots == DOMAIN task

NoResponse == [status |-> "none"]

IdleTask ==
    [pc |-> "idle", doc_url |-> <<>>, questions |-> <<>>, route |-> None,
     processed_docs |-> <<>>, ext |-> None, temp_path |-> <<>>,
     ntokens |-> -1, chunks |-> <<>>, records |-> <<>>, batch_i |-> 0,
     units |-> <<>>, completed |-> <<>>, endpoint_key |-> None,
     lookup |-> None, response |-> NoResponse]

IdleObs ==
    [seq |-> 0, did |-> {}, handlers |-> <<>>, upserts |-> <<>>,
     wrote |-> FALSE, failedIn |-> None, fileAtStart |-> [exists |-> FALSE, docs |-> <<>>],
     afterRecorded |-> FALSE, retry |-> FALSE, priorAccepted |-> {},
     readLedger |-> FALSE, lookups |-> {}]

InitFor(slots) ==
    /\ ledgerFile = [exists |-> FALSE, docs |-> <<>>]
    /\ store = <<>>
    /\ tempFiles = {}
    /\ served = 0
    /\ task = [r \in slots |-> IdleTask]
    /\ obs = [r \in slots |-> IdleObs]
    /\ hist = [recorded |-> {}, lastIngestFailed |-> <<>>, accepted |-> {}]

Init == InitFor({1})

\* ------------------------------------------------------------------------
\* run_hackrx, general path: the stretches of code that more than one
\* action ends with
\* ------------------------------------------------------------------------
\* the exception leaves run_hackrx: the request fails
Failed(t, err) ==
    [t EXCEPT !.pc = "failed", !.response = [status |-> "error", error |-> err]]

\* tasks = [get_answer(q, ...) for q in req.questions]; await gather(*tasks)
\* gather of no task is done at once and the request returns an empty list
Launched(t) ==
    IF Len(t.questions) = 0
    THEN [t EXCEPT !.pc = "done",
                   !.response = [status |-> "ok", answers |-> <<>>]]
    ELSE [t EXCEPT !.pc = "gather",
                   !.units = [k \in 1..Len(t.questions) |->
                                 [pc |-> "search", q |-> t.questions[k],
                                  top_chunks |-> <<>>, call |-> None,
                                  resp |-> <<>>, result |-> None]]]

\* processed_docs.append(doc_url); json.dump(processed_docs, f)
Recorded(t) ==
    [t EXCEPT !.processed_docs = Append(t.processed_docs, t.doc_url)]

LedgerWritten(t) == [exists |-> TRUE, docs |-> Recorded(t).processed_docs]

\* os.remove(temp_path) in the finally block (no temporary file on the .bin
\* path)
Removed(files, t) ==
    IF t.temp_path = <<>> THEN files ELSE files \ {t.temp_path}

\* extract_and_embed_chunks returned: record the locator, then answer
IngestDone(r, t) ==
    /\ task' = [task EXCEPT ![r] = Launched(Recorded(t))]
    /\ ledgerFile' = LedgerWritten(t)
    /\ tempFiles' = Removed(tempFiles, t)

\* (mutant) the ledger is written on the failure path as well
IngestFailedRecorded(r, t, err) ==
    /\ task' = [task EXCEPT ![r] = Failed(t, err)]
    /\ ledgerFile' = LedgerWritten(t)
    /\ tempFiles' = Removed(tempFiles, t)

\* extract_and_embed_chunks raised after the download: the finally block
\* runs, the ledger is not written
IngestFailed(r, t, err) ==
    /\ task' = [task EXCEPT ![r] = Failed(t, err)]
    /\ ledgerFile' = ledgerFile
    /\ tempFiles' = Removed(tempFiles, t)


Did(o, what) == [o EXCEPT !.did = o.did \cup what]

\* ------------------------------------------------------------------------
\* run_hackrx up to its first await
\* ------------------------------------------------------------------------
\* A request arrives and takes the lowest free slot.  Routing is decided; on the general path the ledger
\* file is read and, when the locator is not in it, ingestion starts with
\* the extension probe; otherwise the per-question units are launched.
Start(r, wl) ==
    /\ task[r].pc = "idle"
    /\ \A q \in 1..(r - 1) : task[q].pc # "idle"
    /\ served < wl.maxServed
    /\ \E d \in wl.docs, qs \in wl.qlists :
        LET route == Route(qs)
            loaded == IF ledgerFile.exists THEN ledgerFile.docs ELSE <<>>
            t0 == [IdleTask EXCEPT !.doc_url = d, !.questions = qs,
                                   !.route = route]
            t1 == [t0 EXCEPT !.processed_docs = loaded]
            ingest == route = "general" /\ NeedsIngest(d, loaded)
            o0 == [IdleObs EXCEPT !.seq = served + 1,
                                  !.fileAtStart = ledgerFile,
                                  !.afterRecorded = d \in hist.recorded,
                                  !.retry = hist.lastIngestFailed = d,
                                  !.priorAccepted =
                                      {p \in hist.accepted : p[1] = d}]
            o1 == [o0 EXCEPT !.readLedger = TRUE]
        IN  /\ task' = [task EXCEPT ![r] =
                          CASE route = "flight" -> [t0 EXCEPT !.pc = "flight"]
                            [] route = "secret" -> [t0 EXCEPT !.pc = "secret"]
                            [] ingest -> [t1 EXCEPT !.pc = "probe"]
                            [] OTHER -> Launched(t1)]
            /\ obs' = [obs EXCEPT ![r] =
                          CASE route = "flight" ->
                                  [o0 EXCEPT !.lookups = {"run_flight_lookup"}]
                            [] route = "secret" ->
                                  [o0 EXCEPT !.lookups = {"fetch_secret_token"}]
                            [] ingest -> Did(o1, {"probe"})
                            [] OTHER -> o1]
    /\ served' = served + 1
    /\ UNCHANGED <<ledgerFile, store, tempFiles, hist>>

\* ------------------------------------------------------------------------
\* extract_and_embed_chunks
\* ------------------------------------------------------------------------
\* upsert_chunks is entered with these chunks: with no record its loop body
\* never runs and it returns without suspending, otherwise it suspends in
\* the first upsert_records call
EnterUpsert(r, t, chunks, handler) ==
    LET recs == WithDocUrl(chunks, t.doc_url)
        t1 == [t EXCEPT !.chunks = chunks, !.records = recs, !.batch_i = 0]
        o1 == [Did(obs[r], {"extract"}) EXCEPT
                   !.handlers = Append(obs[r].handlers, handler)]
    IN  IF Len(recs) = 0
        THEN /\ IngestDone(r, t1)
             /\ obs' = [obs EXCEPT ![r] = [o1 EXCEPT !.wrote = TRUE]]
        ELSE /\ task' = [task EXCEPT ![r] = [t1 EXCEPT !.pc = "upsert"]]
             /\ obs' = [obs EXCEPT ![r] = o1]
             /\ UNCHANGED <<ledgerFile, tempFiles>>

\* The probe of get_url_extension answers.  A failure leaves the request;
\* otherwise the suffix is resolved: .bin goes to handle_bin_stub, anything
\* else to download_to_temp.
ProbeDone(r) ==
    /\ task[r].pc = "probe"
    /\ \E ok \in BOOLEAN :
        LET t == task[r]
            ext == get_url_extension(t.doc_url)
            t1 == [t EXCEPT !.ext = ext]
        IN  IF ~ok
            THEN /\ task' = [task EXCEPT ![r] = Failed(t, "TransportError")]
                 /\ obs' = [obs EXCEPT ![r].failedIn = "probe"]
                 /\ UNCHANGED <<ledgerFile, tempFiles>>
            ELSE IF ext = "bin"
            THEN EnterUpsert(r, t1, StubRecords(Basename(t.doc_url), "bin"), "bin")
            ELSE /\ task' = [task EXCEPT ![r] = [t1 EXCEPT !.pc = "download"]]
                 /\ obs' = [obs EXCEPT ![r] = Did(obs[r], {"download"})]
                 /\ UNCHANGED <<ledgerFile, tempFiles>>
    /\ UNCHANGED <<store, served, hist>>

\* The GET of download_to_temp answers.  A failure (connection, status)
\* leaves the request before any file exists; otherwise the temporary file
\* is created and the body starts streaming into it.
DownloadDone(r) ==
    /\ task[r].pc = "download"
    /\ \E ok \in BOOLEAN :
        LET t == task[r]
            name == <<"tmp", obs[r].seq>>
        IN  IF ~ok
            THEN /\ task' = [task EXCEPT ![r] = Failed(t, "TransportError")]
                 /\ obs' = [obs EXCEPT ![r].failedIn = "download"]
                 /\ tempFiles' = tempFiles
            ELSE /\ task' = [task EXCEPT ![r] = [t EXCEPT !.pc = "stream"]]
                 /\ obs' = obs
                 /\ tempFiles' = tempFiles \cup {name}
    /\ UNCHANGED <<ledgerFile, store, served, hist>>

\* the tokens of the "Sheet <name>:" header line; a workbook has at least
\* one sheet, so the text of handle_xlsx is never empty
SheetHeaderTokens(n) == n + 1

\* len(tokens) in _chunk_and_upsert when the handler class calls it for a
\* body whose text (OCR text, cell text, slide text, plain text) has n
\* tokens, -1 when it does not call it
HandlerTokens(class, ext, n) ==
    CASE class = "zip" -> -1
      [] class = "image" -> IF n >= 1 THEN n ELSE -1
      [] class = "text" -> extract_text_file(ext, n)
      [] class = "xlsx" -> SheetHeaderTokens(n)
      [] OTHER -> n

\* (mutant) handle_image_ocr without its else branch: the OCR text is
\* chunked whatever its length
HandlerChunksNoStub(class, ext, basename, n) ==
    CASE class = "zip" -> StubRecords(basename, "zip")
      [] class = "image" -> ChunkRecords(n, basename)
      [] class = "text" -> ChunkRecords(extract_text_file(ext, n), basename)
      [] class = "xlsx" -> ChunkRecords(SheetHeaderTokens(n), basename)
      [] OTHER -> ChunkRecords(n, basename)

\* the chunks a handler class builds from a body whose text has n tokens
HandlerChunks(class, ext, basename, n) ==
    CASE class = "zip" -> StubRecords(basename, "zip")
      [] class = "image" ->
            IF n >= 1 THEN ChunkRecords(n, basename)
            ELSE StubRecords(basename, "image")
      [] class = "text" -> ChunkRecords(extract_text_file(ext, n), basename)
      [] class = "xlsx" -> ChunkRecords(SheetHeaderTokens(n), basename)
      [] OTHER -> ChunkRecords(n, basename)

\* The body has been streamed, or streaming failed.  A failure while
\* streaming leaves download_to_temp with the file closed but not deleted
\* (delete=False) and before the try block of the caller is entered.  On
\* success the path is returned and the try block dispatches on the suffix:
\* no handler raises ValueError, a handler may fail on a corrupt body, and
\* the finally block removes the file in both cases.
StreamDone(r, wl) ==
    /\ task[r].pc = "stream"
    /\ \E ok \in BOOLEAN, corrupt \in BOOLEAN, n \in wl.lens :
        LET t == task[r]
            t1 == [t EXCEPT !.temp_path = <<"tmp", obs[r].seq>>]
            class == HandlerClass(t.ext)
        IN  IF ~ok
            THEN /\ task' = [task EXCEPT ![r] = Failed(t, "TransportError")]
                 /\ obs' = [obs EXCEPT ![r].failedIn = "stream"]
                 /\ UNCHANGED <<ledgerFile, tempFiles>>
            ELSE IF class = "unsupported"
            THEN /\ IngestFailed(r, t1, "UnsupportedFormatError")
                 /\ obs' = [obs EXCEPT ![r].failedIn = "dispatch"]
            ELSE IF corrupt /\ t.ext # "txt"
            THEN /\ IngestFailed(r, t1, "ExtractionError")
                 /\ obs' = [obs EXCEPT ![r] =
                              [Did(obs[r], {"extract"}) EXCEPT
                                  !.failedIn = "extract",
                                  !.handlers = Append(obs[r].handlers, class)]]
            ELSE EnterUpsert(r, [t1 EXCEPT !.ntokens = HandlerTokens(class, t.ext, n)],
                             HandlerChunks(class, t.ext, Basename(t.doc_url), n),
                             class)
    /\ UNCHANGED <<store, served, hist>>

\* (mutant) the failed batch is submitted once more
UpsertFailedRetried(r, t, o1) ==
    /\ task' = [task EXCEPT ![r] = t]
    /\ obs' = [obs EXCEPT ![r] = [o1 EXCEPT !.failedIn = "upsert"]]
    /\ UNCHANGED <<ledgerFile, tempFiles, store>>

\* upsert_records raised: the exception leaves the loop of upsert_chunks,
\* the handler and extract_and_embed_chunks; the store keeps what it has
UpsertFailed(r, t, o1) ==
    /\ IngestFailed(r, t, "StoreError")
    /\ obs' = [obs EXCEPT ![r] = [o1 EXCEPT !.failedIn = "upsert"]]
    /\ store' = store

\* One upsert_records call answers.  A failure leaves upsert_chunks at once
\* (no retry, no further batch); otherwise the batch is in the store and the
\* loop goes on to the next batch, or ingestion is complete.
UpsertDone(r) ==
    /\ task[r].pc = "upsert"
    /\ \E ok \in BOOLEAN :
        LET t == task[r]
            batch == Batch(t.records, t.batch_i)
            o1 == [Did(obs[r], {"upsert"}) EXCEPT
                       !.upserts = Append(obs[r].upserts, batch)]
            t1 == [t EXCEPT !.batch_i = t.batch_i + MAX_BATCH]
        IN  IF ~ok
            THEN UpsertFailed(r, t, o1)
            ELSE /\ store' = UpsertRecords(store, batch)
                 /\ IF t1.batch_i >= Len(t.records)
                    THEN /\ IngestDone(r, t1)
                         /\ obs' = [obs EXCEPT ![r] = [o1 EXCEPT !.wrote = TRUE]]
                    ELSE /\ task' = [task EXCEPT ![r] = t1]
                         /\ obs' = [obs EXCEPT ![r] = o1]
                         /\ UNCHANGED <<ledgerFile, tempFiles>>
    /\ UNCHANGED <<served, hist>>


\* ------------------------------------------------------------------------
\* get_answer: one unit per question, all launched before any runs
\* ------------------------------------------------------------------------
\* docs = [Document(page_content=chunk) for chunk in top_chunks]
Documents(top_chunks) ==
    [k \in 1..Len(top_chunks) |-> [page_content |-> top_chunks[k]]]

UnitFinished(u) == u.pc \in {"done", "failed"}

\* search_chunks answers for unit k.  The store gives no read-after-write
\* guarantee: the hits are the locator's records or none yet.
SearchDone(r) ==
    /\ \E k \in 1..Len(task[r].units), ok \in BOOLEAN, visible \in BOOLEAN :
        /\ task[r].units[k].pc = "search"
        /\ LET t == task[r]
               hits == IF visible THEN SearchHits(store, t.doc_url, TOP_K) ELSE <<>>
           IN  task' = [task EXCEPT ![r] =
              IF ok
              THEN [t EXCEPT !.units[k].pc = "invoke",
                             !.units[k].top_chunks = HitTexts(hits),
                             !.units[k].call =
                                 [input |-> t.units[k].q,
                                  context |-> Documents(HitTexts(hits))]]
              ELSE [t EXCEPT !.units[k].pc = "failed",
                             !.units[k].result = "StoreError",
                             !.completed = Append(t.completed, k)]]
    /\ UNCHANGED <<ledgerFile, store, tempFiles, served, obs, hist>>

\* doc_chain.ainvoke answers for unit k: return q, resp.strip()
InvokeDone(r) ==
    /\ \E k \in 1..Len(task[r].units), ok \in BOOLEAN, resp \in Completions :
        /\ task[r].units[k].pc = "invoke"
        /\ LET t == task[r] IN
            task' = [task EXCEPT ![r] =
              IF ok
              THEN [t EXCEPT !.units[k].pc = "done",
                             !.units[k].resp = resp,
                             !.units[k].result = <<t.units[k].q, Strip(resp)>>,
                             !.completed = Append(t.completed, k)]
              ELSE [t EXCEPT !.units[k].pc = "failed",
                             !.units[k].result = "GenerationError",
                             !.completed = Append(t.completed, k)]]
    /\ UNCHANGED <<ledgerFile, store, tempFiles, served, obs, hist>>

\* (mutant) the results in the order the units completed in
GatherAsCompleted(units, completed) ==
    [k \in 1..Len(units) |-> units[completed[k]].result]

\* results = await asyncio.gather(*tasks): the results in the order of the
\* tasks handed to gather
GatherResults(units, completed) ==
    [k \in 1..Len(units) |-> units[k].result]

\* every unit has returned: answer_texts = [a for (_, a) in results]
GatherReturn(r) ==
    /\ task[r].pc = "gather"
    /\ \A k \in 1..Len(task[r].units) : task[r].units[k].pc = "done"
    /\ LET t == task[r]
           results == GatherResults(t.units, t.completed)
       IN  task' = [task EXCEPT ![r] =
             [t EXCEPT !.pc = "done",
                       !.response =
                           [status |-> "ok",
                            answers |-> [k \in 1..Len(results) |-> results[k][2]]]]]
    /\ UNCHANGED <<ledgerFile, store, tempFiles, served, obs, hist>>

\* (mutant) a failed unit is answered with the text of its error and the
\* request returns
GatherRaiseIsolated(r) ==
    /\ task[r].pc = "gather"
    /\ \E k \in 1..Len(task[r].units) : task[r].units[k].pc = "failed"
    /\ LET t == task[r]
       IN  task' = [task EXCEPT ![r] =
             [t EXCEPT !.pc = "done",
                       !.response =
                           [status |-> "ok",
                            answers |-> [k \in 1..Len(t.units) |->
                                            <<"Error: ", t.units[k].pc>>]]]]
    /\ obs' = [obs EXCEPT ![r].failedIn = "answer"]
    /\ UNCHANGED <<ledgerFile, store, tempFiles, served, hist>>

\* a unit has raised: gather passes the first exception on to run_hackrx at
\* once; the other units are not cancelled and go on running
GatherRaise(r) ==
    /\ task[r].pc = "gather"
    /\ \E k \in 1..Len(task[r].units) : task[r].units[k].pc = "failed"
    /\ LET t == task[r]
           bad == {j \in 1..Len(t.completed) : t.units[t.completed[j]].pc = "failed"}
           first == t.completed[CHOOSE j \in bad : \A i \in bad : j <= i]
       IN  task' = [task EXCEPT ![r] = Failed(t, t.units[first].result)]
    /\ obs' = [obs EXCEPT ![r].failedIn = "answer"]
    /\ UNCHANGED <<ledgerFile, store, tempFiles, served, hist>>

\* ------------------------------------------------------------------------
\* Trivia routes
\* ------------------------------------------------------------------------
Repeat(x, n) == [k \in 1..n |-> x]

\* (mutant) the exception of the lookup leaves run_hackrx
LookupFailedRaised(t, prefix, e) == Failed(t, e)

\* except Exception as e: return QAResponse(answers=[f"<prefix>{e}" for _ in
\* req.questions])
LookupFailed(t, prefix, e) ==
    [t EXCEPT !.pc = "done", !.lookup = None,
              !.response = [status |-> "ok",
                            answers |-> Repeat(<<prefix, e>>, Len(t.questions))]]

\* the replies of the city endpoint: a city of the mapping whose landmark
\* has an endpoint of its own, one whose landmarks have none, a city the
\* mapping does not know, and a payload without a city
CityReplies == {"Delhi", "Pune", "Atlantis", None}

city_to_landmarks(city) ==
    CASE city = "Delhi" -> <<"Gateway of India">>
      [] city = "Pune" -> <<"Meenakshi Temple", "Golden Temple">>
      [] OTHER -> <<>>

DEFAULT_ENDPOINT == "getFifthCityFlightNumber"

landmark_to_endpoint(lm) ==
    CASE lm = "Gateway of India" -> "getFirstCityFlightNumber"
      [] lm = "Taj Mahal" -> "getSecondCityFlightNumber"
      [] lm = "Eiffel Tower" -> "getThirdCityFlightNumber"
      [] lm = "Big Ben" -> "getFourthCityFlightNumber"
      [] OTHER -> None

\* for lm in landmarks: if lm in landmark_to_endpoint: ...; break
EndpointKey(landmarks) ==
    LET special == {k \in 1..Len(landmarks) : landmark_to_endpoint(landmarks[k]) # None}
    IN  IF special = {} THEN DEFAULT_ENDPOINT
        ELSE landmark_to_endpoint(landmarks[CHOOSE k \in special : \A j \in special : k <= j])

\* the exceptions run_flight_lookup may leave with
FlightErrors ==
    {"HTTPStatusError", "API did not return a city name", "Unknown city",
     "No flightNumber in response"}

FlightPrefix == "Failed to retrieve flight number: "

\* The GET of myFavouriteCity answers: the city is looked up in the mapping
\* and the endpoint chosen, then the flight is asked for.
FlightCityDone(r) ==
    /\ task[r].pc = "flight"
    /\ \E ok \in BOOLEAN, city \in CityReplies :
        LET t == task[r]
            landmarks == city_to_landmarks(city)
        IN  task' = [task EXCEPT ![r] =
              IF ~ok THEN LookupFailed(t, FlightPrefix, "HTTPStatusError")
              ELSE IF city = None
              THEN LookupFailed(t, FlightPrefix, "API did not return a city name")
              ELSE IF landmarks = <<>>
              THEN LookupFailed(t, FlightPrefix, "Unknown city")
              ELSE [t EXCEPT !.pc = "flightno",
                             !.endpoint_key = EndpointKey(landmarks)]]
    /\ UNCHANGED <<ledgerFile, store, tempFiles, served, obs, hist>>

\* the replies of the flight endpoint: with and without a flight number
FlightReplies == Flights \cup {[flightNumber |-> None, destination |-> None]}

\* The GET of the flight endpoint answers: run_flight_lookup returns or
\* raises.
FlightDone(r) ==
    /\ task[r].pc = "flightno"
    /\ \E ok \in BOOLEAN, f \in FlightReplies :
        LET t == task[r]
        IN  task' = [task EXCEPT ![r] =
              IF ~ok THEN LookupFailed(t, FlightPrefix, "HTTPStatusError")
              ELSE IF f.flightNumber = None
              THEN LookupFailed(t, FlightPrefix, "No flightNumber in response")
              ELSE [t EXCEPT !.pc = "done",
                             !.lookup = f.flightNumber,
                             !.response =
                                 [status |-> "ok",
                                  answers |->
                                     Repeat(<<"Destination: ", f.destination,
                                              " and Flight Number: ", f.flightNumber>>,
                                            Len(t.questions))]]]
    /\ UNCHANGED <<ledgerFile, store, tempFiles, served, obs, hist>>

\* the pages the locator may serve: with or without the token marker
SecretPages == { <<"<div id=\"token\">", tok, "</div>">> : tok \in SecretTokens }
                   \cup { <<"<p>", "hello", "</p>">> }

\* re.search(r'<div id="token">([\w\d]+)</div>', html_text)
TokenMatch(page) ==
    IF page[1] = "<div id=\"token\">" /\ page[3] = "</div>" THEN page[2] ELSE None

SecretPrefix == "Failed to retrieve secret token: "

\* fetch_secret_token(doc_url) answers
SecretDone(r) ==
    /\ task[r].pc = "secret"
    /\ \E ok \in BOOLEAN, page \in SecretPages :
        LET t == task[r]
            token == TokenMatch(page)
        IN  task' = [task EXCEPT ![r] =
              IF ~ok THEN LookupFailed(t, SecretPrefix, "HTTPStatusError")
              ELSE IF token = None
              THEN LookupFailed(t, SecretPrefix, "Token not found in page HTML")
              ELSE [t EXCEPT !.pc = "done",
                             !.lookup = token,
                             !.response =
                                 [status |-> "ok",
                                  answers |-> Repeat(<<"Secret Token: ", token>>,
                                                     Len(t.questions))]]]
    /\ UNCHANGED <<ledgerFile, store, tempFiles, served, obs, hist>>

\* ------------------------------------------------------------------------
\* The response has been sent and every unit of the request has ended: the
\* slot is free for the next request
\* ------------------------------------------------------------------------
IngestStages == {"probe", "download", "stream", "dispatch", "extract", "upsert"}

Return(r) ==
    /\ task[r].pc \in {"done", "failed"}
    /\ \A k \in 1..Len(task[r].units) : UnitFinished(task[r].units[k])
    /\ task' = [task EXCEPT ![r] = IdleTask]
    /\ obs' = [obs EXCEPT ![r] = IdleObs]
    /\ hist' = [recorded |->
                   IF obs[r].wrote THEN hist.recorded \cup {task[r].doc_url}
                   ELSE hist.recorded,
                lastIngestFailed |->
                   IF obs[r].failedIn \in IngestStages THEN task[r].doc_url
                   ELSE <<>>,
                accepted |->
                   IF task[r].batch_i > 0
                   THEN hist.accepted \cup {<<task[r].doc_url, task[r].ntokens>>}
                   ELSE hist.accepted]
    /\ UNCHANGED <<ledgerFile, store, tempFiles, served>>

\* ------------------------------------------------------------------------
\* Specifications
\* ------------------------------------------------------------------------
\* the ledger gate and ingestion
StepIngest(r, wl) ==
    \/ Start(r, wl)
    \/ ProbeDone(r)
    \/ DownloadDone(r)
    \/ StreamDone(r, wl)
    \/ UpsertDone(r)
    \/ Return(r)

\* answering, on the general path and on the trivia routes
StepAnswer(r) ==
    \/ SearchDone(r)
    \/ InvokeDone(r)
    \/ GatherReturn(r)
    \/ GatherRaise(r)
    \/ FlightCityDone(r)
    \/ FlightDone(r)
    \/ SecretDone(r)

\* one request, every format
Next == \E r \in {1} : StepIngest(r, WlDispatch) \/ StepAnswer(r)
Spec == Init /\ [][Next]_vars

\* requests one after another, every question list
NextSeq == \E r \in {1} : StepIngest(r, WlSeq) \/ StepAnswer(r)
SpecSeq == Init /\ [][NextSeq]_vars

\* requests that overlap in time, on NSlots slots.  Their question lists
\* are empty (gather of no task returns at once), so no answering action is
\* ever enabled.
NextConc == \E r \in 1..NSlots : StepIngest(r, WlConc)
InitConc == InitFor(1..NSlots)
SpecConc == InitConc /\ [][NextConc]_vars

\* one request for a document of any number of chunk records
NextBatch == \E r \in {1} : StepIngest(r, WlBatch) \/ StepAnswer(r)
SpecBatch == Init /\ [][NextBatch]_vars

\* one request for a document of any number of tokens
NextChunk == \E r \in {1} : StepIngest(r, WlChunk) \/ StepAnswer(r)
SpecChunk == Init /\ [][NextChunk]_vars

\* requests one after another for one document whose ingestion may fail
\* between two batches; no questions, so no answering action is enabled
NextRetry == \E r \in {1} : StepIngest(r, WlRetry)
SpecRetry == Init /\ [][NextRetry]_vars

\* ------------------------------------------------------------------------
\* Claims
\* ------------------------------------------------------------------------
NoDuplicates(s) == \A i, j \in 1..Len(s) : s[i] = s[j] => i = j

\* C1 (ledger gate): a general-path request for a locator that an earlier,
\* finished request ingested and wrote to the ledger performs no ingestion
\* step (no probe, download, extraction, chunking or upsert).
C1_LedgerGate ==
    \A r \in Slots :
        (task[r].route = "general" /\ obs[r].afterRecorded) => obs[r].did = {}

\* C9 (append-only ledger): no step removes a locator from the ledger file,
\* also when requests interleave.
C9_AppendOnly ==
    [][\A k \in 1..Len(ledgerFile.docs) : InSeq(ledgerFile.docs[k], ledgerFile'.docs)]_vars

\* C10 (no duplicates): each locator is at most once in the ledger file, in
\* every state any interleaving of successful and failed requests reaches.
C10_NoDuplicates == NoDuplicates(ledgerFile.docs)

\* two overlapping requests for one locator have both ingested it and both
\* written the ledger
C10_Witness ==
    /\ \A r \in Slots : task[r].pc = "done" /\ obs[r].wrote
    /\ \A r, q \in Slots : task[r].doc_url = task[q].doc_url
    /\ Cardinality(Slots) >= 2
    /\ \E r \in Slots : InSeq(task[r].doc_url, ledgerFile.docs)

\* C2 (failed ingestion): a request whose ingestion failed at the probe, the
\* download, the dispatch, the extraction or an upsert batch has aborted
\* with an error, has left the ledger file exactly as it found it (the
\* locator not in it), and the next general-path request for the locator
\* starts the pipeline again at the probe.
C2_FailedIngestRetryable ==
    \A r \in Slots :
        /\ (task[r].pc = "failed" /\ obs[r].failedIn \in IngestStages) =>
              /\ task[r].response.status = "error"
              /\ ~obs[r].wrote
              /\ ledgerFile = obs[r].fileAtStart
              /\ ~InSeq(task[r].doc_url, ledgerFile.docs)
        /\ (obs[r].retry /\ task[r].route = "general") => "probe" \in obs[r].did

\* the request that follows a failed ingestion of the locator has run the
\* pipeline again as far as an upsert batch, which failed in its turn
C2_Witness ==
    \E r \in Slots :
        /\ obs[r].retry
        /\ task[r].pc = "failed"
        /\ obs[r].failedIn = "upsert"

\* a is resp without its leading and trailing white space
IsTrimOf(a, resp) ==
    \E i \in 1..(Len(resp) + 1), j \in 0..Len(resp) :
        /\ a = SubSeq(resp, i, j)
        /\ \A k \in 1..(i - 1) : IsSpace(resp[k])
        /\ \A k \in (j + 1)..Len(resp) : IsSpace(resp[k])
        /\ a # <<>> => ~IsSpace(a[1]) /\ ~IsSpace(a[Len(a)])

\* C3 (order preservation): when every unit of a general-path request has
\* succeeded, whatever the order the units ran and completed in, there is
\* one answer per question and the i-th answer is the trimmed completion of
\* the unit that was invoked with the i-th question and its own snippets.
C3_OrderPreserved ==
    \A r \in Slots :
        (task[r].pc = "done" /\ task[r].route = "general") =>
            LET t == task[r]
                a == t.response.answers
            IN  /\ Len(a) = Len(t.questions)
                /\ \A i \in 1..Len(t.questions) :
                      /\ t.units[i].call.input = t.questions[i]
                      /\ t.units[i].call.context = Documents(t.units[i].top_chunks)
                      /\ IsTrimOf(a[i], t.units[i].resp)

\* two units completed in the reverse of the question order, with
\* different completions
C3_Witness ==
    \E r \in Slots :
        /\ task[r].pc = "done"
        /\ task[r].route = "general"
        /\ task[r].completed = <<2, 1>>
        /\ task[r].units[1].resp # task[r].units[2].resp
        /\ task[r].response.answers = <<<<"n", "o">>, <<"y", "e", "s">>>>

RECURSIVE Flatten(_)
Flatten(batches) ==
    IF batches = <<>> THEN <<>> ELSE Head(batches) \o Flatten(Tail(batches))

\* C4 (batching): when no batch fails, upsert_chunks has issued ceil(M/96)
\* calls for its M chunk records, each of 1 to 96 records, and the batches
\* put end to end in call order are the chunk records in their order, each
\* with the owning locator as doc_url.
C4_Batching ==
    \A r \in Slots :
        obs[r].wrote =>
            LET t == task[r]
                M == Len(t.chunks)
                calls == obs[r].upserts
                flat == Flatten(calls)
            IN  /\ Len(calls) * 96 >= M
                /\ (Len(calls) - 1) * 96 < M \/ (M = 0 /\ Len(calls) = 0)
                /\ \A b \in 1..Len(calls) : Len(calls[b]) \in 1..96
                /\ Len(flat) = M
                /\ \A k \in 1..M :
                      flat[k] = [id |-> t.chunks[k].id, text |-> t.chunks[k].text,
                                 doc_url |-> t.doc_url]

\* an ingestion of more than two full batches: the last call is a short one
C4_Witness ==
    \E r \in Slots :
        /\ obs[r].wrote
        /\ Len(task[r].chunks) > 2 * 96
        /\ Len(obs[r].upserts) = 3
        /\ Len(obs[r].upserts[3]) < 96

\* C5 (chunk windows, W = 2000, O = 200): the windows of a token sequence
\* of length n start at 0, 1800, 3600, ... and are named
\* <basename>::chunk_<start>; each holds at most 2000 tokens; two
\* consecutive windows of which the second is not the last share exactly
\* 200 tokens; every position 0..n-1 is in some window; n = 2500 gives the
\* two chunks chunk_0 and chunk_1800.
C5_ChunkWindows ==
    \A r \in Slots :
        (task[r].pc = "upsert" /\ task[r].ntokens >= 0) =>
            LET t == task[r]
                n == t.ntokens
                cs == t.chunks
                w(k) == cs[k].text
            IN  /\ \A k \in 1..Len(cs) :
                      /\ w(k).lo = 1800 * (k - 1)
                      /\ cs[k].id = <<Basename(t.doc_url), "::chunk_", DecStr(w(k).lo)>>
                      /\ w(k).hi - w(k).lo <= 2000
                      /\ w(k).hi - w(k).lo >= 1
                /\ \A k \in 1..(Len(cs) - 2) :
                      /\ w(k + 1).lo < w(k).hi
                      /\ w(k).hi - w(k + 1).lo = 200
                /\ \A p \in 0..(n - 1) :
                      \E k \in 1..Len(cs) : w(k).lo <= p /\ p < w(k).hi
                /\ n = 2500 =>
                      /\ Len(cs) = 2
                      /\ cs[1].id = <<Basename(t.doc_url), "::chunk_", <<0>> >>
                      /\ cs[2].id = <<Basename(t.doc_url), "::chunk_", <<1, 8, 0, 0>> >>

\* a text of 2500 tokens has been chunked into two windows, the second one
\* the shorter
C5_Witness ==
    \E r \in Slots :
        /\ task[r].pc = "upsert"
        /\ task[r].ntokens = 2500
        /\ Len(task[r].chunks) = 2
        /\ task[r].chunks[2].text = [lo |-> 1800, hi |-> 2500]

\* the suffixes the dispatch knows, each with its handler class
RecognizedClass ==
    [e \in {"bin", "zip", "png", "jpeg", "jpg", "bmp", "gif", "xlsx", "pptx",
             "pdf", "docx", "txt", "eml"} |->
        CASE e = "bin" -> "bin"
          [] e = "zip" -> "zip"
          [] e \in {"png", "jpeg", "jpg", "bmp", "gif"} -> "image"
          [] e = "xlsx" -> "xlsx"
          [] e = "pptx" -> "pptx"
          [] OTHER -> "text"]

Resolved(r) == task[r].ext # None

Ended(r) == task[r].pc \in {"failed", "gather", "done"}

\* C6 as stated (format dispatch): a request with a recognized suffix runs
\* exactly the one handler class of that suffix, and a request with any
\* other resolved suffix ends in the unsupported-format error, with no
\* upsert call and no ledger entry.
C6_DispatchAsStated ==
    \A r \in Slots :
        Resolved(r) =>
            IF task[r].ext \in DOMAIN RecognizedClass
            THEN \/ obs[r].handlers = <<>>
                 \/ obs[r].handlers = <<RecognizedClass[task[r].ext]>>
            ELSE Ended(r) =>
                    /\ task[r].pc = "failed"
                    /\ task[r].response.error = "UnsupportedFormatError"
                    /\ obs[r].upserts = <<>>
                    /\ ~obs[r].wrote

\* C6 as amended: a request with a recognized suffix runs the one handler
\* class of that suffix, once its download has succeeded; a request with
\* any other resolved suffix (the empty one included) is downloaded as well
\* and then ends in the unsupported-format error, or in the transport error
\* of a failed download; either way it runs no handler, makes no upsert
\* call, writes no ledger entry and never succeeds.
C6_Dispatch ==
    \A r \in Slots :
        Resolved(r) =>
            IF task[r].ext \in DOMAIN RecognizedClass
            THEN /\ \/ obs[r].handlers = <<>>
                    \/ obs[r].handlers = <<RecognizedClass[task[r].ext]>>
                 /\ ("extract" \in obs[r].did \/ obs[r].wrote) =>
                        obs[r].handlers = <<RecognizedClass[task[r].ext]>>
            ELSE /\ obs[r].handlers = <<>>
                 /\ obs[r].upserts = <<>>
                 /\ ~obs[r].wrote
                 /\ ~InSeq(task[r].doc_url, ledgerFile.docs)
                 /\ task[r].pc \in {"download", "stream", "failed"}
                 /\ task[r].pc = "failed" =>
                        IF obs[r].failedIn \in {"download", "stream"}
                        THEN task[r].response.error = "TransportError"
                        ELSE /\ obs[r].failedIn = "dispatch"
                             /\ task[r].response.error = "UnsupportedFormatError"

\* a locator without any suffix has been downloaded and refused
C6_Witness ==
    \E r \in Slots :
        /\ task[r].ext = ""
        /\ task[r].pc = "failed"
        /\ task[r].response.error = "UnsupportedFormatError"

\* the questions of the pool that contain "secret token" / "flight number"
\* when case is ignored
SecretQuestions == {QSecret, QTokens}
FlightQuestions == {QFlight}

ExactlyOneSecret(qs) ==
    Cardinality({k \in 1..Len(qs) : qs[k] \in SecretQuestions}) = 1

NoFlight(qs) == \A k \in 1..Len(qs) : qs[k] \notin FlightQuestions

IsSecretAnswer(a) == Len(a) = 2 /\ a[1] = "Secret Token: " /\ a[2] \in SecretTokens

\* C7 as stated (secret token): when exactly one question of the batch
\* contains "secret token", every answer is the same string, of the form
\* "Secret Token: <token>".
C7_SecretAsStated ==
    \A r \in Slots :
        (task[r].pc = "done" /\ ExactlyOneSecret(task[r].questions)) =>
            LET a == task[r].response.answers
            IN  /\ Len(a) = Len(task[r].questions)
                /\ \A k \in 1..Len(a) : a[k] = a[1] /\ IsSecretAnswer(a[k])

\* C7 as amended: when exactly one question of the batch contains "secret
\* token" and none contains "flight number", there is one answer per
\* question and all are the same string: "Secret Token: <token>" with the
\* token of the page when the lookup succeeded, the failure text
\* "Failed to retrieve secret token: <error>" when it did not.
C7_Secret ==
    \A r \in Slots :
        (/\ task[r].pc = "done"
         /\ ExactlyOneSecret(task[r].questions)
         /\ NoFlight(task[r].questions)) =>
            LET a == task[r].response.answers
            IN  /\ task[r].route = "secret"
                /\ Len(a) = Len(task[r].questions)
                /\ \A k \in 1..Len(a) :
                      /\ a[k] = a[1]
                      /\ IF task[r].lookup # None
                         THEN a[k] = <<"Secret Token: ", task[r].lookup>>
                         ELSE Len(a[k]) = 2 /\ a[k][1] = "Failed to retrieve secret token: "

\* a batch of an ordinary question and one in mixed case has been answered
\* with the token twice
C7_Witness ==
    \E r \in Slots :
        /\ task[r].pc = "done"
        /\ task[r].questions = <<QCover, QSecret>>
        /\ task[r].response.answers =
              <<<<"Secret Token: ", "abc123">>, <<"Secret Token: ", "abc123">>>>

\* C8 (temporary file): no ingestion attempt ends, in success or in
\* failure, with the temporary file of its download still on disk.
C8_TempFileRemoved ==
    \A r \in Slots : Ended(r) => <<"tmp", obs[r].seq>> \notin tempFiles

\* C11 (gather waits for every unit): a request on the general path has
\* not returned or failed to its caller while one of the units it launched
\* is still suspended at retrieval or at model invocation.
C11_WaitsForAllUnits ==
    \A r \in Slots :
        task[r].pc \in {"done", "failed"} =>
            \A k \in 1..Len(task[r].units) : UnitFinished(task[r].units[k])

\* C18 (no isolation of a failed question): once a unit has failed at
\* retrieval or at model invocation the request cannot return answers; it
\* fails with that unit's error and no answers list, and the ledger entry
\* it wrote before answering is still in the file.
C18_NotIsolated ==
    \A r \in Slots :
        (\E k \in 1..Len(task[r].units) : task[r].units[k].pc = "failed") =>
            /\ task[r].pc \in {"gather", "failed"}
            /\ task[r].pc = "failed" =>
                  /\ obs[r].failedIn = "answer"
                  /\ task[r].response.status = "error"
                  /\ task[r].response.error \in {"StoreError", "GenerationError"}
                  /\ "answers" \notin DOMAIN task[r].response
                  /\ obs[r].wrote => InSeq(task[r].doc_url, ledgerFile.docs)

\* a request has ingested its locator, recorded it, answered one question
\* and failed on the other
C18_Witness ==
    \E r \in Slots :
        /\ task[r].pc = "failed"
        /\ obs[r].failedIn = "answer"
        /\ obs[r].wrote
        /\ InSeq(task[r].doc_url, ledgerFile.docs)
        /\ \E k \in 1..Len(task[r].units) : task[r].units[k].pc = "done"

AnyFlight(qs) == \E k \in 1..Len(qs) : qs[k] \in FlightQuestions
AnySecret(qs) == \E k \in 1..Len(qs) : qs[k] \in SecretQuestions

\* C12 (side-channel failure): a request on a trivia route never fails to
\* its caller; when its lookup failed (at either GET of the flight lookup,
\* on a missing or unknown city, a missing flight number, a page without
\* the token) it returns one answer per question, all of them the same
\* failure text of its route.
C12_LookupFailureAnswered ==
    \A r \in Slots :
        task[r].route \in {"flight", "secret"} =>
            /\ task[r].pc # "failed"
            /\ (task[r].pc = "done" /\ task[r].lookup = None) =>
                  LET a == task[r].response.answers
                  IN  /\ task[r].response.status = "ok"
                      /\ Len(a) = Len(task[r].questions)
                      /\ \A k \in 1..Len(a) :
                            /\ a[k] = a[1]
                            /\ Len(a[k]) = 2
                            /\ a[k][1] = IF task[r].route = "flight"
                                         THEN "Failed to retrieve flight number: "
                                         ELSE "Failed to retrieve secret token: "
                            /\ a[k][2] \in FlightErrors \cup
                                             {"Token not found in page HTML"}

\* a batch of two questions has been answered twice with the failure of
\* the flight lookup on a city the mapping does not know
C12_Witness ==
    \E r \in Slots :
        /\ task[r].pc = "done"
        /\ task[r].route = "flight"
        /\ Len(task[r].questions) = 2
        /\ task[r].response.answers =
              Repeat(<<"Failed to retrieve flight number: ", "Unknown city">>, 2)

\* C19 (trivia requests touch nothing): a request whose batch holds a
\* trigger phrase reads no ledger, runs no ingestion step, launches no unit
\* (no search, no model invocation), and no step taken while it is being
\* served changes the ledger file or the store.
C19_TriviaFrame ==
    /\ [](\A r \in Slots :
            (AnyFlight(task[r].questions) \/ AnySecret(task[r].questions)) =>
                /\ ~obs[r].readLedger
                /\ obs[r].did = {}
                /\ obs[r].upserts = <<>>
                /\ task[r].units = <<>>
                /\ task[r].processed_docs = <<>>
                /\ ledgerFile = obs[r].fileAtStart)
    /\ [][(\E r \in Slots :
              \/ AnyFlight(task[r].questions) \/ AnySecret(task[r].questions)
              \/ AnyFlight(task'[r].questions) \/ AnySecret(task'[r].questions))
            => (ledgerFile' = ledgerFile /\ store' = store)]_vars

\* a secret-token request for a locator that is in the ledger and in the
\* store has been answered with the failure of its lookup
C19_Witness ==
    \E r \in Slots :
        /\ task[r].pc = "done"
        /\ task[r].route = "secret"
        /\ task[r].lookup = None
        /\ InSeq(task[r].doc_url, ledgerFile.docs)
        /\ \E k \in 1..Len(store) : store[k].doc_url = task[r].doc_url

\* C20 (routing priority): a batch with a "flight number" question is on
\* the flight route and has called run_flight_lookup only; one with a
\* "secret token" question and no "flight number" question is on the
\* secret route; any other batch, the empty one included, is on the general
\* path, has read the ledger, has started ingestion when the locator was
\* not in it, and returns one answer per question; the route of a request
\* never changes.
C20_RoutingPriority ==
    /\ [](\A r \in Slots :
            task[r].pc # "idle" =>
                LET qs == task[r].questions
                IN  IF AnyFlight(qs)
                    THEN /\ task[r].route = "flight"
                         /\ obs[r].lookups = {"run_flight_lookup"}
                         /\ ~obs[r].readLedger
                    ELSE IF AnySecret(qs)
                    THEN /\ task[r].route = "secret"
                         /\ obs[r].lookups = {"fetch_secret_token"}
                         /\ ~obs[r].readLedger
                    ELSE /\ task[r].route = "general"
                         /\ obs[r].lookups = {}
                         /\ obs[r].readLedger
                         /\ ~InSeq(task[r].doc_url, obs[r].fileAtStart.docs)
                                => "probe" \in obs[r].did
                         /\ task[r].pc = "done" =>
                                Len(task[r].response.answers) = Len(qs))
    /\ [][\A r \in Slots :
            (task[r].pc # "idle" /\ task'[r].pc # "idle") =>
                task'[r].route = task[r].route]_vars

\* a batch with a secret-token and a flight-number question has been
\* answered with the failure of the flight lookup
C20_Witness ==
    \E r \in Slots :
        /\ task[r].pc = "done"
        /\ task[r].questions = <<QSecret, QFlight>>
        /\ task[r].lookup = None
        /\ task[r].response.answers[1][1] = "Failed to retrieve flight number: "

\* C13 (a record for every recorded locator): every locator in the ledger
\* file has at least one record in the store.
C13_RecordedHasRecord ==
    \A k \in 1..Len(ledgerFile.docs) :
        \E j \in 1..Len(store) : store[j].doc_url = ledgerFile.docs[k]

\* the handler of the request has handed its records to upsert_chunks
HandedOver(r) ==
    task[r].pc = "upsert" \/ obs[r].wrote \/ obs[r].failedIn = "upsert"

IsStubPath(r) ==
    \/ RecognizedClass[task[r].ext] \in {"bin", "zip"}
    \/ RecognizedClass[task[r].ext] = "image" /\ task[r].ntokens = -1

\* C15 (stub paths): a .bin locator, a .zip archive and an image without
\* OCR text hand over exactly one record, with id <basename>::metadata, in
\* exactly one upsert call; an image with OCR text hands over chunk records
\* only, and at least one.
C15_StubPaths ==
    \A r \in Slots :
        (/\ Resolved(r)
         /\ task[r].ext \in DOMAIN RecognizedClass
         /\ HandedOver(r)) =>
            IF IsStubPath(r)
            THEN /\ Len(task[r].records) = 1
                 /\ task[r].records[1].id = <<Basename(task[r].doc_url), "::metadata">>
                 /\ task[r].records[1].doc_url = task[r].doc_url
                 /\ obs[r].upserts \in {<<>>, <<task[r].records>>}
                 /\ task[r].pc # "upsert" => obs[r].upserts = <<task[r].records>>
            ELSE RecognizedClass[task[r].ext] = "image" =>
                 /\ Len(task[r].records) >= 1
                 /\ \A k \in 1..Len(task[r].records) :
                       /\ Len(task[r].records[k].id) = 3
                       /\ task[r].records[k].id[2] = "::chunk_"

\* an image without OCR text has been ingested with its one stub record
C15_Witness ==
    \E r \in Slots :
        /\ task[r].ext = "png"
        /\ task[r].ntokens = -1
        /\ obs[r].wrote
        /\ Len(obs[r].upserts) = 1
        /\ Len(obs[r].upserts[1]) = 1
        /\ obs[r].upserts[1][1].id = <<<<"scan">>, "::metadata">>

\* the j-th slice of at most 96 records
NthBatch(recs, j) ==
    SubSeq(recs, (j - 1) * 96 + 1, Min(j * 96, Len(recs)))

\* C16 (a failed batch): every batch is submitted at most once and in
\* order; when the k-th call fails no further call is made, the request
\* fails with the store's error, the records of batches 1..k-1 are in the
\* store, those of batch k and later are not, and the locator is not in the
\* ledger.
C16_BatchFailure ==
    \A r \in Slots :
        /\ \A j \in 1..Len(obs[r].upserts) :
              obs[r].upserts[j] = NthBatch(task[r].records, j)
        /\ obs[r].failedIn = "upsert" =>
              LET k == Len(obs[r].upserts)
                  recs == task[r].records
              IN  /\ k >= 1
                  /\ task[r].pc = "failed"
                  /\ task[r].response = [status |-> "error", error |-> "StoreError"]
                  /\ \A i \in 1..Len(recs) :
                        InSeq(recs[i], store) <=> i <= (k - 1) * 96
                  /\ ~obs[r].wrote
                  /\ ~InSeq(task[r].doc_url, ledgerFile.docs)

\* the second of three batches has failed
C16_Witness ==
    \E r \in Slots :
        /\ obs[r].failedIn = "upsert"
        /\ Len(obs[r].upserts) = 2
        /\ Len(task[r].records) > 2 * 96
        /\ Len(store) = 96

\* the ids of a sequence of records
Ids(recs) == {recs[k].id : k \in 1..Len(recs)}

\* the records the store holds for a locator
HeldFor(doc_url) == SelectSeq(store, LAMBDA rec : rec.doc_url = doc_url)

\* C14 (re-ingestion overwrites): when the ingestion of a locator failed
\* after the store had accepted some of its batches, and the locator is
\* then ingested again, with the same text, with success, the store holds
\* for it exactly the ids of this one ingestion, one record per id.
C14_ReingestOverwrites ==
    \A r \in Slots :
        (/\ obs[r].retry
         /\ obs[r].wrote
         /\ obs[r].priorAccepted = {<<task[r].doc_url, task[r].ntokens>>}) =>
            LET held == HeldFor(task[r].doc_url)
            IN  /\ Ids(held) = Ids(task[r].records)
                /\ Len(held) = Len(task[r].records)
                /\ Cardinality(Ids(held)) = Len(held)

\* a document of 97 records, of which 96 had been accepted when its first
\* ingestion failed, has been ingested again
C14_Witness ==
    \E r \in Slots :
        /\ obs[r].retry
        /\ obs[r].wrote
        /\ obs[r].priorAccepted = {<<task[r].doc_url, task[r].ntokens>>}
        /\ Len(task[r].records) = 97
        /\ Len(obs[r].upserts) = 2

\* C17 (the chunker stops when the tokens are consumed): the window before
\* any emitted window has not reached the end of the token sequence, so
\* every window holds a token its predecessor does not.
C17_StopsWhenConsumed ==
    \A r \in Slots :
        task[r].ntokens >= 0 =>
            \A k \in 2..Len(task[r].chunks) :
                /\ task[r].chunks[k - 1].text.hi < task[r].ntokens
                /\ task[r].chunks[k].text.hi > task[r].chunks[k - 1].text.hi

====
